---- MODULE Spec2Model ----
(***************************************************************************)
(* js-immutable (src/index.js): reduce(selector)(_originalObject) returns  *)
(* a builder whose operation methods record {operation, value} entries in  *)
(* the ledger toUpdate under the current targetPointer, and whose apply()  *)
(* walks the selector against the object, cloning along the selected paths *)
(* and applying the recorded operation at every pointer-marker leaf.       *)
(*                                                                         *)
(* JavaScript objects and arrays live in a heap (a sequence of containers, *)
(* the address of a container being its index), so that reference identity *)
(* (===) and mutation are observable.  A value is a primitive or a         *)
(* reference into the heap.                                                *)
(***************************************************************************)
EXTENDS Naturals, Sequences, FiniteSets, TLC

VARIABLES
    selector,         \* reduce's argument (closure variable)
    _originalObject,  \* selectorWrapper's argument (closure variable)
    heap,             \* every object and array allocated so far
    toUpdate,         \* the ledger: pointer key -> {value, operation}
    targetPointer,    \* the current pointer
    result,           \* what apply() returned or that it threw
    calls,            \* history of the operation-method calls made
    snapshot          \* the heap as it was when the session was created

vars == <<selector, _originalObject, heap, toUpdate, targetPointer, result, calls, snapshot>>

\* Bound on the number of operation-method calls of one session.
MaxCalls == 2

-----------------------------------------------------------------------------
(* JavaScript values.  Every value is a record of the same shape so that   *)
(* any two values can be compared.                                         *)

Undefined == [t |-> "undefined", n |-> 0, s |-> ""]
Null == [t |-> "null", n |-> 0, s |-> ""]
Num(i) == [t |-> "number", n |-> i, s |-> ""]
Str(x) == [t |-> "string", n |-> 0, s |-> x]
Fn(name) == [t |-> "function", n |-> 0, s |-> name]
Ref(a) == [t |-> "ref", n |-> a, s |-> ""]

\* typeof v
typeof(v) == IF v.t \in {"null", "ref"} THEN "object" ELSE v.t

\* v === null || v === undefined
isNullish(v) == v.t \in {"null", "undefined"}

\* !v
isFalsy(v) ==
    \/ isNullish(v)
    \/ v.t = "string" /\ v.s = ""
    \/ v.t = "number" /\ v.n = 0

\* The property names "0", "1", ... of array indices, in ascending order.
IndexKeys == <<"0", "1", "2", "3", "4", "5", "6", "7", "8", "9">>

IndexKeySet == {IndexKeys[i] : i \in 1..Len(IndexKeys)}

\* A container: an object or an array, with its own enumerable properties
\* in Object.keys order.
Obj(ks, vs) == [kind |-> "object", keys |-> ks, vals |-> vs]
Arr(vs) == [kind |-> "array", keys |-> [i \in 1..Len(vs) |-> IndexKeys[i]], vals |-> vs]

\* Array.isArray(v)
isArray(h, v) == v.t = "ref" /\ h[v.n].kind = "array"

KeySet(c) == {c.keys[i] : i \in 1..Len(c.keys)}

\* c[k] for a container c
Get(c, k) ==
    IF k \in KeySet(c)
    THEN c.vals[CHOOSE i \in 1..Len(c.keys) : c.keys[i] = k]
    ELSE Undefined

\* The own enumerable properties of a value, as Object.assign and
\* Object.keys see them: those of the container for a reference, none for
\* null, undefined, a number or a function.
OwnProps(h, v) == IF v.t = "ref" THEN h[v.n] ELSE Obj(<<>>, <<>>)

\* v[k] for a value v that is neither null nor undefined
Prop(h, v, k) == Get(OwnProps(h, v), k)

\* Property order of an object: integer-like keys ascending, then the
\* other keys in insertion order.
OrderKeys(ks) ==
    LET present == {ks[i] : i \in 1..Len(ks)}
    IN SelectSeq(IndexKeys, LAMBDA k : k \in present)
         \o SelectSeq(ks, LAMBDA k : k \notin IndexKeySet)

\* Object.assign(target, source) on containers: the source's properties
\* are written over the target's.
Assign(target, source) ==
    LET added == SelectSeq(source.keys, LAMBDA k : k \notin KeySet(target))
        ks == OrderKeys(target.keys \o added)
    IN Obj(ks, [i \in 1..Len(ks) |->
                   IF ks[i] \in KeySet(source) THEN Get(source, ks[i])
                   ELSE Get(target, ks[i])])

\* c[k] = v on a container that has the property k or not
Put(c, k, v) == Assign(c, Obj(<<k>>, <<v>>))

\* What a function of the model returns: a new heap and a value.
Ret(h, v) == [heap |-> h, value |-> v]

\* A newly created object or array: it gets the next free address.
Alloc(h, c) == Ret(Append(h, c), Ref(Len(h) + 1))

\* str.startsWith(prefix), over the strings the model uses
Suffixes == {"", "x", "y"}
startsWith(str, prefix) == \E rest \in Suffixes : str = prefix \o rest

\* The functions a caller hands to pipe: x => x and () => 0.
Call(f, v) == IF f.s = "identity" THEN v ELSE Num(0)

-----------------------------------------------------------------------------
(* The operation registry (operationalMapper).                             *)

pipe(h, value, predicate) ==
    IF isNullish(value) \/ typeof(predicate) # "function"
    THEN Ret(h, value)
    ELSE Ret(h, Call(predicate, value))

set(h, oldValue, newValue) ==
    IF isNullish(newValue) THEN Ret(h, oldValue) ELSE Ret(h, newValue)

extend(h, oldArray, newArray) ==
    IF ~isArray(h, newArray) \/ ~isArray(h, oldArray)
    THEN Ret(h, oldArray)
    ELSE IF Len(h[newArray.n].vals) # 0
         THEN Alloc(h, Arr(h[oldArray.n].vals \o h[newArray.n].vals))
         ELSE Ret(h, oldArray)

\* Array.prototype.concat(value): an array argument is spread, any other
\* argument is added as one element.
concat(h, list, value) ==
    Arr(h[list.n].vals \o (IF isArray(h, value) THEN h[value.n].vals ELSE <<value>>))

append(h, oldList, value) ==
    IF isNullish(value) \/ ~isArray(h, oldList)
    THEN Ret(h, oldList)
    ELSE Alloc(h, concat(h, oldList, value))

\* merge without the check for a payload that has no keys
mergeWithoutKeysCheck(h, oldObject, newObject) ==
    IF isNullish(newObject) \/ typeof(newObject) # "object"
    THEN Ret(h, oldObject)
    ELSE Alloc(h, Assign(Assign(Obj(<<>>, <<>>), OwnProps(h, oldObject)),
                         OwnProps(h, newObject)))

merge(h, oldObject, newObject) ==
    IF isNullish(newObject) \/ typeof(newObject) # "object"
    THEN Ret(h, oldObject)
    ELSE IF Len(OwnProps(h, newObject).keys) = 0
         THEN Ret(h, oldObject)
         ELSE Alloc(h, Assign(Assign(Obj(<<>>, <<>>), OwnProps(h, oldObject)),
                              OwnProps(h, newObject)))

deleteOp(h, oldObject, key) ==
    IF isNullish(key)
    THEN Ret(h, oldObject)
    ELSE IF isArray(h, oldObject)
         THEN LET old == h[oldObject.n].vals
                  kept == {i \in 1..Len(old) : key # Num(i - 1)}
                  pos(j) == CHOOSE i \in kept : Cardinality({m \in kept : m < i}) = j - 1
              IN Alloc(h, Arr([j \in 1..Cardinality(kept) |-> old[pos(j)]]))
         ELSE IF typeof(oldObject) = "object" /\ oldObject # Null
              THEN LET old == h[oldObject.n]
                       ks == SelectSeq(old.keys, LAMBDA k : Str(k) # key)
                   IN Alloc(h, Obj(ks, [i \in 1..Len(ks) |-> Get(old, ks[i])]))
              ELSE Ret(h, oldObject)

operationalMapper(operation, h, oldValue, value) ==
    CASE operation = "set" -> set(h, oldValue, value)
      [] operation = "append" -> append(h, oldValue, value)
      [] operation = "merge" -> merge(h, oldValue, value)
      [] operation = "extend" -> extend(h, oldValue, value)
      [] operation = "delete" -> deleteOp(h, oldValue, value)
      [] operation = "pipe" -> pipe(h, oldValue, value)

-----------------------------------------------------------------------------
(* The ledger.                                                             *)

\* toUpdateCoro keeping the entry a pointer already has
toUpdateCoroKeepingFirst(ledger, updatePayload, pointer) ==
    IF pointer = "#"
    THEN ledger @@ ("default" :> updatePayload)
    ELSE IF startsWith(pointer, "#") /\ Len(pointer) > 1
         THEN ledger @@ (pointer :> updatePayload)
         ELSE ledger

\* One round of the toUpdateCoro generator: the entry is stored under
\* "default" for the pointer "#", under the pointer itself otherwise.
toUpdateCoro(ledger, updatePayload, pointer) ==
    IF pointer = "#"
    THEN ("default" :> updatePayload) @@ ledger
    ELSE IF startsWith(pointer, "#") /\ Len(pointer) > 1
         THEN (pointer :> updatePayload) @@ ledger
         ELSE ledger

\* the guard with && for ||
shouldRecordDefined(value) == value # Undefined /\ value # Null

\* The guard of the wrapper operationFactory makes.
shouldRecord(value) == value # Undefined \/ value # Null

\* the lookup taking every marker for "#"
ledgerKeyDefault(selectorObject) == "default"

\* The lookup selectTransform makes at a marker leaf: the key of toUpdate
\* that the marker selects.
ledgerKey(selectorObject) == IF selectorObject = "#" THEN "default" ELSE selectorObject

\* the leaf without the check for an empty ledger
noOperationUnchecked(ledger) == FALSE

\* !updateKeys.length
noOperation(ledger) == DOMAIN ledger = {}

-----------------------------------------------------------------------------
(* The selector: a marker (a string starting with "#") or a mapping, a     *)
(* sequence of <<key, selector>> pairs in Object.keys order.               *)

Marker(m) == [marker |-> m, kids |-> <<>>]
Mapping(kids) == [marker |-> "", kids |-> kids]

\* typeof selectorObject === 'string' && selectorObject.startsWith('#')
isMarker(selectorObject) == startsWith(selectorObject.marker, "#")

\* let clonedObject = originalObject
aliasClone(h, originalObject) == Ret(h, originalObject)

\* a clone that copies the containers the object refers to as well
copyingClone(h, originalObject) ==
    LET c == OwnProps(h, originalObject)
        refs == SelectSeq([i \in 1..Len(c.vals) |-> i], LAMBDA i : c.vals[i].t = "ref")
        rank(i) == CHOOSE j \in 1..Len(refs) : refs[j] = i
        copies == [j \in 1..Len(refs) |-> h[c.vals[refs[j]].n]]
        vs == [i \in 1..Len(c.vals) |->
                 IF c.vals[i].t = "ref" THEN Ref(Len(h) + rank(i)) ELSE c.vals[i]]
    IN Alloc(h \o copies, Obj(c.keys, vs))

\* let clonedObject = Object.assign({}, originalObject)
shallowClone(h, originalObject) ==
    Alloc(h, Assign(Obj(<<>>, <<>>), OwnProps(h, originalObject)))

\* break alone: the clone made so far is returned
abortedBranchKeepingClone(originalObject, clonedObject) == clonedObject

\* clonedObject = originalObject; break
abortedBranch(originalObject, clonedObject) == originalObject

\* What selectTransform returns: the heap, the value, and whether it threw.
Threw(h) == [heap |-> h, value |-> Undefined, threw |-> TRUE]
Done(r) == [heap |-> r.heap, value |-> r.value, threw |-> FALSE]

\* The marker leaf of selectTransform.
leafTransform(h, ledger, originalObject, selectorObject) ==
    IF noOperation(ledger)
    THEN Threw(h)
    ELSE IF ledgerKey(selectorObject.marker) \in DOMAIN ledger
         THEN LET updater == ledger[ledgerKey(selectorObject.marker)]
              IN Done(operationalMapper(updater.operation, h, originalObject, updater.value))
         ELSE Done(Ret(h, originalObject))

RECURSIVE selectTransform(_, _, _, _)
RECURSIVE forKeys(_, _, _, _, _, _)

\* The for loop of selectTransform from the i-th key of the selector on,
\* clonedObject being the clone made at this level.
forKeys(h, ledger, originalObject, selectorObject, clonedObject, i) ==
    IF i > Len(selectorObject.kids)
    THEN Done(Ret(h, clonedObject))
    ELSE LET key == selectorObject.kids[i][1]
             keyedObject == Prop(h, clonedObject, key)
         IN IF isNullish(keyedObject)
            THEN Done(Ret(h, abortedBranch(originalObject, clonedObject)))
            ELSE LET r == selectTransform(h, ledger, keyedObject, selectorObject.kids[i][2])
                 IN IF r.threw
                    THEN r
                    ELSE forKeys([r.heap EXCEPT ![clonedObject.n] = Put(@, key, r.value)],
                                 ledger, originalObject, selectorObject, clonedObject, i + 1)

selectTransform(h, ledger, originalObject, selectorObject) ==
    IF isMarker(selectorObject)
    THEN leafTransform(h, ledger, originalObject, selectorObject)
    ELSE LET c == shallowClone(h, originalObject)
         IN forKeys(c.heap, ledger, originalObject, selectorObject, c.value, 1)

-----------------------------------------------------------------------------
(* The objects a session is created over.  The payload containers come     *)
(* first in the heap, at the addresses 1..4; the containers of the         *)
(* original object follow them.                                            *)

PayloadObject == Ref(1)
PayloadArray == Ref(2)
EmptyArray == Ref(3)
EmptyObject == Ref(4)

PayloadHeap ==
    << Obj(<<"b", "c">>, <<Num(8), Num(9)>>),
       Arr(<<Num(5), Num(6)>>),
       Arr(<<>>),
       Obj(<<>>, <<>>) >>

\* {a: 1, b: 2}
Flat == [root |-> Ref(5), heap |-> << Obj(<<"a", "b">>, <<Num(1), Num(2)>>) >>]

\* {a: {a: 1, b: [3, 4]}, b: 2}
Nested ==
    [root |-> Ref(5),
     heap |-> << Obj(<<"a", "b">>, <<Ref(6), Num(2)>>),
                 Obj(<<"a", "b">>, <<Num(1), Ref(7)>>),
                 Arr(<<Num(3), Num(4)>>) >>]

\* {a: {a: 1, b: null}, c: {a: 2}}
WithNull ==
    [root |-> Ref(5),
     heap |-> << Obj(<<"a", "c">>, <<Ref(6), Ref(7)>>),
                 Obj(<<"a", "b">>, <<Num(1), Null>>),
                 Obj(<<"a">>, <<Num(2)>>) >>]

\* const x = {a: 1, b: [3]}; {a: x, b: x}
Shared ==
    [root |-> Ref(5),
     heap |-> << Obj(<<"a", "b">>, <<Ref(6), Ref(6)>>),
                 Obj(<<"a", "b">>, <<Num(1), Ref(7)>>),
                 Arr(<<Num(3)>>) >>]

\* {a: [{a: 1}, 2], b: null}
WithArray ==
    [root |-> Ref(5),
     heap |-> << Obj(<<"a", "b">>, <<Ref(6), Null>>),
                 Arr(<<Ref(7), Num(2)>>),
                 Obj(<<"a">>, <<Num(1)>>) >>]

\* 5
Primitive == [root |-> Num(5), heap |-> <<>>]

Objects == {Flat, Nested, WithNull, Shared, WithArray, Primitive}

Selectors ==
    { Mapping(<< <<"a", Marker("#")>> >>),
      Mapping(<< <<"a", Marker("#")>>, <<"b", Marker("#x")>> >>),
      Mapping(<< <<"b", Marker("#x")>>, <<"a", Marker("#")>> >>),
      Mapping(<< <<"a", Marker("#y")>>, <<"b", Marker("#")>> >>),
      Mapping(<< <<"a", Mapping(<< <<"a", Marker("#")>>, <<"b", Marker("#x")>> >>)>>,
                 <<"b", Marker("#y")>> >>),
      Mapping(<< <<"a", Mapping(<< <<"a", Marker("#x")>> >>)>>,
                 <<"b", Mapping(<< <<"b", Marker("#")>> >>)>> >>),
      Mapping(<< <<"a", Mapping(<< <<"0", Mapping(<< <<"a", Marker("#x")>> >>)>>,
                                   <<"1", Marker("#")>> >>)>> >>),
      Mapping(<< <<"c", Mapping(<< <<"a", Marker("#")>> >>)>>,
                 <<"a", Mapping(<< <<"a", Marker("#x")>>, <<"c", Marker("#")>> >>)>> >>),
      Mapping(<< <<"a", Mapping(<< <<"b", Mapping(<< <<"0", Marker("#")>> >>)>> >>)>>,
                 <<"c", Marker("#y")>> >>),
      Mapping(<< <<"a", Mapping(<< <<"a", Marker("#")>>, <<"b", Marker("#x")>> >>)>>,
                 <<"c", Mapping(<< <<"a", Marker("#x")>> >>)>> >>) }

\* The arguments the model passes to of().
Targets == {Undefined, Str("#"), Str("x"), Str("#x"), Num(1)}

\* The payloads the model passes to each operation method.
Payloads(operationName) ==
    CASE operationName = "set" -> {Undefined, Num(0), Num(7)}
      [] operationName = "merge" -> {Null, PayloadObject}
      [] operationName = "extend" -> {PayloadArray}
      [] operationName = "append" -> {PayloadArray}
      [] operationName = "delete" -> {Str("a")}
      [] operationName = "pipe" -> {Fn("always0")}

NoResult == [status |-> "none", value |-> Undefined]

\* reduce(selector)(_originalObject): the builder before any call.
Session(object, sel) ==
    /\ selector = sel
    /\ _originalObject = object.root
    /\ heap = PayloadHeap \o object.heap
    /\ snapshot = PayloadHeap \o object.heap
    /\ toUpdate = <<>>
    /\ targetPointer = "#"
    /\ result = NoResult
    /\ calls = <<>>

Init == \E object \in Objects, sel \in Selectors : Session(object, sel)

-----------------------------------------------------------------------------
(* The builder's methods.  A session is followed up to its apply().        *)

of(target) ==
    /\ result = NoResult
    /\ targetPointer' =
          IF isFalsy(target)
          THEN targetPointer
          ELSE IF typeof(target) = "string" /\ startsWith(target.s, "#") /\ Len(target.s) > 1
               THEN target.s
               ELSE targetPointer
    /\ UNCHANGED <<selector, _originalObject, heap, toUpdate, result, calls, snapshot>>

\* The wrapper operationFactory(operationName) returns, called with value.
operationFactory(operationName, value) ==
    /\ result = NoResult
    /\ Len(calls) < MaxCalls
    /\ toUpdate' =
          IF shouldRecord(value)
          THEN toUpdateCoro(toUpdate, [value |-> value, operation |-> operationName],
                            targetPointer)
          ELSE toUpdate
    /\ calls' = Append(calls, [pointer |-> targetPointer, operation |-> operationName,
                               value |-> value])
    /\ UNCHANGED <<selector, _originalObject, heap, targetPointer, result, snapshot>>

Set(value) == operationFactory("set", value)
Merge(value) == operationFactory("merge", value)
Delete(value) == operationFactory("delete", value)
AppendTo(value) == operationFactory("append", value)
Extend(value) == operationFactory("extend", value)
Pipe(value) == operationFactory("pipe", value)

apply ==
    /\ result = NoResult
    /\ LET r == selectTransform(heap, toUpdate, _originalObject, selector)
       IN /\ heap' = r.heap
          /\ result' = [status |-> IF r.threw THEN "threw" ELSE "returned", value |-> r.value]
    /\ UNCHANGED <<selector, _originalObject, toUpdate, targetPointer, calls, snapshot>>

Next ==
    \/ \E target \in Targets : of(target)
    \/ \E value \in Payloads("set") : Set(value)
    \/ \E value \in Payloads("merge") : Merge(value)
    \/ \E value \in Payloads("delete") : Delete(value)
    \/ \E value \in Payloads("append") : AppendTo(value)
    \/ \E value \in Payloads("extend") : Extend(value)
    \/ \E value \in Payloads("pipe") : Pipe(value)
    \/ apply

Spec == Init /\ [][Next]_vars

-----------------------------------------------------------------------------
(* Sessions over one leaf: {p: old} with the selector {p: '#'}, and every  *)
(* kind of payload for each operation.                                     *)

OldValues == {Num(1), Ref(5), Ref(6), Ref(7)}

\* {p: old}, beside {a: 1, b: 2}, [3, 4] and []
Leaf(old) ==
    [root |-> Ref(8),
     heap |-> << Obj(<<"a", "b">>, <<Num(1), Num(2)>>),
                 Arr(<<Num(3), Num(4)>>),
                 Arr(<<>>),
                 Obj(<<"p">>, <<old>>) >>]

LeafSelector == Mapping(<< <<"p", Marker("#")>> >>)

AllPayloads(operationName) ==
    CASE operationName = "set" -> {Undefined, Null, Num(7)}
      [] operationName = "merge" ->
            {Undefined, Null, Num(7), Str("a"), EmptyArray, EmptyObject, PayloadObject}
      [] operationName = "extend" ->
            {Undefined, Null, Num(7), PayloadObject, EmptyArray, PayloadArray}
      [] operationName = "append" ->
            {Undefined, Null, Num(7), PayloadObject, EmptyArray, PayloadArray}
      [] operationName = "delete" -> {Undefined, Null, Str("a"), Num(0)}
      [] operationName = "pipe" -> {Undefined, Null, Num(7), PayloadObject, Fn("identity")}

InitOps == \E old \in OldValues : Session(Leaf(old), LeafSelector)

NextOps ==
    \/ \E value \in AllPayloads("set") : Set(value)
    \/ \E value \in AllPayloads("merge") : Merge(value)
    \/ \E value \in AllPayloads("delete") : Delete(value)
    \/ \E value \in AllPayloads("append") : AppendTo(value)
    \/ \E value \in AllPayloads("extend") : Extend(value)
    \/ \E value \in AllPayloads("pipe") : Pipe(value)
    \/ apply

SpecOps == InitOps /\ [][NextOps]_vars

-----------------------------------------------------------------------------
(* Paths.  A path is the sequence of keys from the root of the selector to *)
(* one of its nodes; the same keys lead from the original object, and from *)
(* the result, to the value at that place.                                 *)

RECURSIVE Nodes(_)
\* Every node of a selector with its path.
Nodes(sel) ==
    {[path |-> <<>>, node |-> sel]} \cup
    UNION { { [path |-> <<sel.kids[i][1]>> \o r.path, node |-> r.node] :
                r \in Nodes(sel.kids[i][2]) } : i \in 1..Len(sel.kids) }

Branches == {r \in Nodes(selector) : ~isMarker(r.node)}
Leaves == {r \in Nodes(selector) : isMarker(r.node)}

SelectedKeys(node) == {node.kids[i][1] : i \in 1..Len(node.kids)}

RECURSIVE At(_, _, _)
\* The value the path leads to from v, undefined when the path breaks off.
At(h, v, path) ==
    IF path = <<>> THEN v
    ELSE IF isNullish(v) THEN Undefined
    ELSE At(h, Prop(h, v, Head(path)), Tail(path))

OrigAt(path) == At(snapshot, _originalObject, path)
ResAt(path) == At(heap, result.value, path)

Prefix(path, n) == SubSeq(path, 1, n)

\* Every key of the path has a value other than null and undefined in the
\* original object.
PathExists(path) == \A n \in 1..Len(path) : ~isNullish(OrigAt(Prefix(path, n)))

\* The branch r names no key that is null or undefined in the original.
Complete(r) ==
    \A k \in SelectedKeys(r.node) : ~isNullish(Prop(snapshot, OrigAt(r.path), k))

\* The branches above the node at path, the root first.
Above(path) == {r \in Branches : Len(r.path) < Len(path) /\ r.path = Prefix(path, Len(r.path))}

\* The place is reached by the traversal and what is computed there is
\* kept in the result: the path exists and no branch above it aborts.
Retained(path) == PathExists(path) /\ \A r \in Above(path) : Complete(r)

Fresh(v) == v.t = "ref" /\ v.n > Len(snapshot)

Returned == result.status = "returned"
ThrewError == result.status = "threw"

CallsUnder(pointer) == SelectSeq(calls, LAMBDA c : c.pointer = pointer)
HasCall(pointer) == CallsUnder(pointer) # <<>>
LastCall(pointer) == CallsUnder(pointer)[Len(CallsUnder(pointer))]
Entry(call) == [value |-> call.value, operation |-> call.operation]

\* The leaf r of the result holds what the call's operation makes of the
\* original leaf: the same primitive or reference, or a new container with
\* the same content.
Shows(r, call) ==
    LET e == operationalMapper(call.operation, snapshot, OrigAt(r.path), call.value)
    IN IF Fresh(e.value)
       THEN Fresh(ResAt(r.path)) /\ heap[ResAt(r.path).n] = e.heap[e.value.n]
       ELSE ResAt(r.path) = e.value

-----------------------------------------------------------------------------
(* The claims.                                                             *)

\* C1: the original object is never mutated: in every state of a session,
\* also after apply() has returned or thrown, every container that existed
\* when the session was created (the original's and the payloads') has the
\* keys and the values it had then.
C1_Immutability ==
    /\ Len(heap) >= Len(snapshot)
    /\ \A a \in 1..Len(snapshot) : heap[a] = snapshot[a]

\* apply() returned a result that differs from the original at a leaf two
\* levels down.
C1_Witness ==
    /\ Returned
    /\ \E r \in Leaves :
          /\ Len(r.path) >= 2
          /\ Retained(r.path)
          /\ ResAt(r.path) # OrigAt(r.path)

\* C2: structural sharing: at every branch of the selector, each key of the
\* original container that the selector does not name at that level holds
\* in the result the very value (the same reference) it holds in the
\* original, and the result has no other keys there.
C2_StructuralSharing ==
    Returned =>
       \A r \in Branches :
          (PathExists(r.path) /\ OrigAt(r.path).t = "ref") =>
             /\ ResAt(r.path).t = "ref"
             /\ KeySet(heap[ResAt(r.path).n]) = KeySet(snapshot[OrigAt(r.path).n])
             /\ \A k \in KeySet(snapshot[OrigAt(r.path).n]) \ SelectedKeys(r.node) :
                   Get(heap[ResAt(r.path).n], k) = Get(snapshot[OrigAt(r.path).n], k)

\* A cloned branch with a changed leaf beside an unselected key that holds
\* a reference.
C2_Witness ==
    /\ Returned
    /\ \E r \in Branches :
          /\ Retained(r.path) /\ Complete(r)
          /\ Fresh(ResAt(r.path))
          /\ \E k \in KeySet(snapshot[OrigAt(r.path).n]) \ SelectedKeys(r.node) :
                Get(snapshot[OrigAt(r.path).n], k).t = "ref"
          /\ \E k \in SelectedKeys(r.node) :
                Prop(heap, ResAt(r.path), k) # Prop(snapshot, OrigAt(r.path), k)

\* C3: abort on a missing path: a branch of the selector that names a key
\* which is null or undefined in the object yields the original sub-object
\* itself, whatever was computed for the keys before it; the branches above
\* it that name no such key are new clones all the same.
C3_AbortOnMissingPath ==
    Returned =>
       \A r \in Branches :
          (PathExists(r.path) /\ ~Complete(r)) =>
             /\ ResAt(r.path) = OrigAt(r.path)
             /\ \A q \in Above(r.path) :
                   (Retained(q.path) /\ Complete(q)) => Fresh(ResAt(q.path))

\* A visited branch below the root whose first key is a marker leaf with a
\* recorded operation that changes the leaf, and whose later key is missing.
C3_Witness ==
    /\ Returned
    /\ \E r \in Branches :
          /\ Len(r.path) >= 1
          /\ Retained(r.path)
          /\ ResAt(r.path) = OrigAt(r.path)
          /\ \E i, j \in 1..Len(r.node.kids) :
                /\ i < j
                /\ isNullish(Prop(snapshot, OrigAt(r.path), r.node.kids[j][1]))
                /\ LET leaf == [path |-> r.path \o <<r.node.kids[i][1]>>,
                                node |-> r.node.kids[i][2]]
                   IN /\ isMarker(leaf.node)
                      /\ ~isNullish(OrigAt(leaf.path))
                      /\ HasCall(leaf.node.marker)
                      /\ operationalMapper(LastCall(leaf.node.marker).operation, snapshot,
                                           OrigAt(leaf.path),
                                           LastCall(leaf.node.marker).value).value
                            # OrigAt(leaf.path)

\* C4: last write wins: the ledger holds, for every pointer an operation
\* method was called under, exactly the entry of the last such call, and
\* for nothing else; after several calls under one pointer the leaves
\* tagged with it show the last call's operation applied to the original
\* leaf.
C4_LastWriteWins ==
    /\ DOMAIN toUpdate = {ledgerKey(calls[i].pointer) : i \in 1..Len(calls)}
    /\ \A i \in 1..Len(calls) :
          toUpdate[ledgerKey(calls[i].pointer)] = Entry(LastCall(calls[i].pointer))
    /\ Returned =>
          \A r \in Leaves :
             (Retained(r.path) /\ Len(CallsUnder(r.node.marker)) >= 2) =>
                Shows(r, LastCall(r.node.marker))

\* Two calls under one pointer, and a leaf that shows the second and not
\* the first.
C4_Witness ==
    /\ Returned
    /\ \E r \in Leaves :
          /\ Retained(r.path)
          /\ Len(CallsUnder(r.node.marker)) >= 2
          /\ ~Shows(r, CallsUnder(r.node.marker)[1])
          /\ Shows(r, LastCall(r.node.marker))
          /\ ResAt(r.path) # OrigAt(r.path)

\* C5: pointer scoping: a leaf whose marker no operation method was called
\* under is the original reference, and a leaf whose marker has calls shows
\* the last call made under that very pointer, whatever was recorded under
\* the other pointers.
C5_PointerScoping ==
    Returned =>
       \A r \in Leaves :
          Retained(r.path) =>
             IF HasCall(r.node.marker)
             THEN Shows(r, LastCall(r.node.marker))
             ELSE ResAt(r.path) = OrigAt(r.path)

\* Operations recorded under "#" and under "#x", each changing its own
\* leaf, and a leaf tagged "#y" left as it was.
C5_Witness ==
    /\ Returned
    /\ HasCall("#") /\ HasCall("#x")
    /\ Entry(LastCall("#")) # Entry(LastCall("#x"))
    /\ \E r1, r2, r3 \in Leaves :
          /\ Retained(r1.path) /\ Retained(r2.path) /\ Retained(r3.path)
          /\ r1.node.marker = "#" /\ ResAt(r1.path) # OrigAt(r1.path)
          /\ r2.node.marker = "#x" /\ ResAt(r2.path) # OrigAt(r2.path)
          /\ ~Shows(r2, LastCall("#")) /\ ~Shows(r1, LastCall("#x"))
          /\ r3.node.marker = "#y" /\ ResAt(r3.path) = OrigAt(r3.path)

RECURSIVE ReachesLeaf(_, _, _)
\* The depth-first traversal of the selector from its i-th key on, over
\* the original value v, comes to a marker leaf.
ReachesLeaf(v, sel, i) ==
    IF i > Len(sel.kids) THEN FALSE
    ELSE LET child == Prop(snapshot, v, sel.kids[i][1])
         IN IF isNullish(child) THEN FALSE
            ELSE IF isMarker(sel.kids[i][2]) THEN TRUE
            ELSE ReachesLeaf(child, sel.kids[i][2], 1) \/ ReachesLeaf(v, sel, i + 1)

\* C6: when no operation method was called, apply() throws exactly when its
\* traversal comes to a marker leaf, and then returns nothing.
C6_NoOperationQueued ==
    (calls = <<>> /\ result # NoResult) =>
       /\ ThrewError <=> ReachesLeaf(_originalObject, selector, 1)
       /\ ReachesLeaf(_originalObject, selector, 1) => result.value = Undefined

\* apply() threw in a session without calls, at a leaf below the root level.
C6_Witness ==
    /\ calls = <<>>
    /\ ThrewError
    /\ ~isMarker(selector.kids[1][2])
    /\ ReachesLeaf(_originalObject, selector, 1)

\* The no-op condition of each operation, by the registry's table.
NoOpCondition(operation, old, payload) ==
    CASE operation = "set" -> isNullish(payload)
      [] operation = "merge" ->
            \/ isNullish(payload)
            \/ typeof(payload) # "object"
            \/ KeySet(OwnProps(snapshot, payload)) = {}
      [] operation = "extend" ->
            \/ ~isArray(snapshot, old)
            \/ ~isArray(snapshot, payload)
            \/ snapshot[payload.n].vals = <<>>
      [] operation = "append" -> isNullish(payload) \/ ~isArray(snapshot, old)
      [] operation = "delete" -> isNullish(payload)
      [] operation = "pipe" -> typeof(payload) # "function" \/ isNullish(old)

\* C7: no-op leniency: apply() does not throw once an operation method was
\* called, and a leaf whose recorded operation is in its no-op condition is
\* the original leaf itself (the same reference).
C7_NoOpLeniency ==
    (calls # <<>> /\ result # NoResult) =>
       /\ Returned
       /\ \A r \in Leaves :
             (Retained(r.path) /\ HasCall(r.node.marker)
                /\ NoOpCondition(LastCall(r.node.marker).operation, OrigAt(r.path),
                                 LastCall(r.node.marker).value))
             => ResAt(r.path) = OrigAt(r.path)

\* merge({}) recorded for a leaf that holds an object: the leaf of the
\* result is that object.
C7_Witness ==
    /\ Returned
    /\ \E r \in Leaves :
          /\ Retained(r.path)
          /\ HasCall(r.node.marker)
          /\ LastCall(r.node.marker).operation = "merge"
          /\ LastCall(r.node.marker).value = EmptyObject
          /\ OrigAt(r.path).t = "ref"
          /\ ResAt(r.path) = OrigAt(r.path)

\* C8: append adds its payload as one element: for an array leaf and a
\* payload that is neither null nor undefined, also an array, the leaf of
\* the result is a new array, one longer than the old, with the old
\* elements first and the payload last.
C8_AppendAddsOneElement ==
    Returned =>
       \A r \in Leaves :
          (Retained(r.path) /\ HasCall(r.node.marker)
             /\ LastCall(r.node.marker).operation = "append"
             /\ ~isNullish(LastCall(r.node.marker).value)
             /\ isArray(snapshot, OrigAt(r.path)))
          => /\ Fresh(ResAt(r.path))
             /\ heap[ResAt(r.path).n] =
                   Arr(Append(snapshot[OrigAt(r.path).n].vals, LastCall(r.node.marker).value))

\* C9 as stated: every container on an existing selector path to a marker
\* is a new instance in the result, whatever else the selector names.
C9_FreshClonesRegardless ==
    Returned =>
       \A r \in Leaves :
          PathExists(r.path) =>
             \A q \in Above(r.path) : ResAt(q.path) # OrigAt(q.path)

\* C9 amended: on a selector path to a marker, when no branch on the path
\* names a key that is null or undefined in the original, every container
\* on the path is in the result a new object, made by apply().
C9_FreshClones ==
    Returned =>
       \A r \in Leaves :
          Retained(r.path) =>
             \A q \in Above(r.path) :
                /\ Fresh(ResAt(q.path))
                /\ ResAt(q.path) # OrigAt(q.path)
                /\ heap[ResAt(q.path).n].kind = "object"

\* A retained marker three levels down: the root and two more containers
\* on its path are new.
C9_Witness ==
    /\ Returned
    /\ \E r \in Leaves :
          /\ Len(r.path) >= 3
          /\ Retained(r.path)
          /\ \A q \in Above(r.path) : Fresh(ResAt(q.path))

\* C10: a call with a null or undefined payload is recorded like any
\* other: when the last call under a pointer has such a payload, the
\* ledger's entry for the pointer is that call's, the leaves tagged with
\* the pointer are the original values, and after any call at all the
\* ledger is not empty and apply() does not throw.
C10_RecordsAnyPayload ==
    /\ calls # <<>> => (~noOperation(toUpdate) /\ ~ThrewError)
    /\ \A i \in 1..Len(calls) :
          LET call == LastCall(calls[i].pointer)
          IN isNullish(call.value) =>
                /\ ledgerKey(call.pointer) \in DOMAIN toUpdate
                /\ toUpdate[ledgerKey(call.pointer)] = Entry(call)
                /\ Returned =>
                      \A r \in Leaves :
                         (Retained(r.path) /\ r.node.marker = call.pointer) =>
                            ResAt(r.path) = OrigAt(r.path)

\* set(7) then set(undefined) under one pointer, and the leaf is the
\* original value.
C10_Witness ==
    /\ Returned
    /\ \E r \in Leaves :
          /\ Retained(r.path)
          /\ Len(CallsUnder(r.node.marker)) = 2
          /\ Entry(CallsUnder(r.node.marker)[1]) = [value |-> Num(7), operation |-> "set"]
          /\ Entry(CallsUnder(r.node.marker)[2]) = [value |-> Undefined, operation |-> "set"]
          /\ ResAt(r.path) = OrigAt(r.path)
          /\ OrigAt(r.path) # Num(7)

====
